---- MODULE Spec2Model ----
(***************************************************************************)
(* Model of app.py: CDP neighbour discovery over a list of hosts.          *)
(*                                                                         *)
(* Text is modelled as a sequence of one-character strings, so that the    *)
(* regular expressions, str.replace and str.splitlines of the source are   *)
(* computed on characters and not assumed.                                 *)
(***************************************************************************)
EXTENDS Integers, Sequences, FiniteSets, TLC

VARIABLES ip_list, pc, i, device_interfaces, j, results, cmdLog, rowSrc,
          csv, writes, unit, arg, ret, called

vars == <<ip_list, pc, i, device_interfaces, j, results, cmdLog, rowSrc,
          csv, writes, unit, arg, ret, called>>

mainVars == <<ip_list, pc, i, device_interfaces, j, results, cmdLog, rowSrc,
              csv, writes>>

(***************************************************************************)
(* Bounds of the model.                                                    *)
(***************************************************************************)
\* longest host list read from list.csv
MaxHosts == 2
\* longest interface name, in chunks of NameChunks
MaxChunks == 3
\* longest summary output, in lines of SummaryLines
MaxLines == 3
\* longest detail output, in segments of DetailSegments
MaxSegments == 3

(***************************************************************************)
(* Generic sequence helpers.                                               *)
(***************************************************************************)
RECURSIVE Flatten(_)
Flatten(ss) == IF ss = <<>> THEN <<>> ELSE Head(ss) \o Flatten(Tail(ss))

\* all sequences over S of length 0..n
SeqsUpTo(S, n) == UNION {[1..k -> S] : k \in 0..n}

\* s has pat at position p (1-based)
At(s, p, pat) ==
    /\ p >= 1
    /\ p + Len(pat) - 1 <= Len(s)
    /\ SubSeq(s, p, p + Len(pat) - 1) = pat

Contains(s, pat) == \E p \in 1..Len(s) : At(s, p, pat)

\* number of non-overlapping occurrences, scanning left to right
RECURSIVE Count(_, _)
Count(s, pat) ==
    IF Len(s) < Len(pat) THEN 0
    ELSE IF At(s, 1, pat) THEN 1 + Count(SubSeq(s, Len(pat) + 1, Len(s)), pat)
    ELSE Count(Tail(s), pat)

(***************************************************************************)
(* str.replace(old, new): every non-overlapping occurrence of old,         *)
(* scanning left to right, is replaced by new.                             *)
(***************************************************************************)
RECURSIVE replace(_, _, _)
replace(s, old, new) ==
    IF Len(s) < Len(old) THEN s
    ELSE IF At(s, 1, old)
         THEN new \o replace(SubSeq(s, Len(old) + 1, Len(s)), old, new)
         ELSE <<Head(s)>> \o replace(Tail(s), old, new)

Fas == <<"F","a","s">>
Gig == <<"G","i","g">>
FastEthernet == <<"F","a","s","t","E","t","h","e","r","n","e","t">>
GigabitEthernet == <<"G","i","g","a","b","i","t","E","t","h","e","r","n","e","t">>

\* a plausible slip: a first-match-only substitution table
corrected_interface_firstmatch(interface) ==
    IF Contains(interface, Fas) THEN replace(interface, Fas, FastEthernet)
    ELSE IF Contains(interface, Gig) THEN replace(interface, Gig, GigabitEthernet)
    ELSE interface

\* app.py:119  interface.replace('Fas', ...).replace('Gig', ...)
corrected_interface(interface) ==
    replace(replace(interface, Fas, FastEthernet), Gig, GigabitEthernet)

show_cdp_neighbor == <<"s","h","o","w"," ","c","d","p"," ","n","e","i","g","h","b","o","r"," ">>
detail_suffix == <<" ","d","e","t","a","i","l">>

\* app.py:122  f"show cdp neighbor {corrected_interface} detail"
detail_command(interface) ==
    show_cdp_neighbor \o corrected_interface(interface) \o detail_suffix

\* app.py:105
cdp_command == <<"s","h","o","w"," ","c","d","p"," ","n","e","i","g","h","b","o","r","s">>

(***************************************************************************)
(* Inputs of the unit specification of the interface-name normalisation.   *)
(***************************************************************************)
NameChunks ==
    { Fas, Gig, <<"F","a">>, <<"s">>, <<"G">>, <<"i","g">>, <<"0">>, <<"/">> }

NameInputs == { Flatten(cs) : cs \in SeqsUpTo(NameChunks, MaxChunks) }

idleMain ==
    /\ ip_list = <<>>
    /\ pc = "idle"
    /\ i = 0
    /\ device_interfaces = <<>>
    /\ j = 0
    /\ results = <<>>
    /\ cmdLog = <<>>
    /\ rowSrc = <<>>
    /\ csv = <<>>
    /\ writes = 0

InitNormalize ==
    /\ idleMain
    /\ unit = "normalize"
    /\ arg \in NameInputs
    /\ ret = <<>>
    /\ called = FALSE

Normalize ==
    /\ unit = "normalize"
    /\ ~called
    /\ ret' = detail_command(arg)
    /\ called' = TRUE
    /\ UNCHANGED <<mainVars, unit, arg>>

SpecNormalize == InitNormalize /\ [][Normalize]_vars

(***************************************************************************)
(* parse_cdp_output (app.py:40-65).                                        *)
(***************************************************************************)
NL == "\n"
IsSpace(c) == c \in {" ", "\t", NL}
Digits == {"0","1","2","3","4","5","6","7","8","9"}
\* the capability alphabet of the pattern, [RTBSHIPDCM]
Capabilities == {"R","T","B","S","H","I","P","D","C","M"}

\* str.splitlines() for text whose only line boundary is "\n"
RECURSIVE splitlines(_)
splitlines(s) ==
    IF s = <<>> THEN <<>>
    ELSE LET nls == {k \in 1..Len(s) : s[k] = NL}
         IN  IF nls = {} THEN <<s>>
             ELSE LET k == CHOOSE k \in nls : \A m \in nls : k <= m
                  IN  <<SubSeq(s, 1, k - 1)>>
                          \o splitlines(SubSeq(s, k + 1, Len(s)))

\* the maximal runs of non-whitespace of a line: where they start and end
TokStarts(line) ==
    {p \in 1..Len(line) : ~IsSpace(line[p]) /\ (p = 1 \/ IsSpace(line[p - 1]))}
TokStart(line, n) ==
    LET starts == TokStarts(line)
    IN  CHOOSE p \in starts : Cardinality({q \in starts : q < p}) = n - 1
TokEnd(line, n) ==
    LET p == TokStart(line, n)
        ends == {q \in p..Len(line) : q = Len(line) \/ IsSpace(line[q + 1])}
    IN  CHOOSE q \in ends : \A r \in ends : q <= r
Tok(line, n) == SubSeq(line, TokStart(line, n), TokEnd(line, n))

(***************************************************************************)
(* app.py:55  re.search of                                                 *)
(*   ^(\S+)\s+(\S+\s+\S+)\s+\d+\s+[RTBSHIPDCM]+\s+(\S+)\s+\S+              *)
(* Every \S+, \d+ and [..]+ but the last is followed by \s+, so each of    *)
(* them matches one whole whitespace-delimited token; ^ with \S+ forbids   *)
(* leading whitespace; the trailing \S+ needs a seventh token.             *)
(***************************************************************************)
line_match(line) ==
    /\ Len(line) >= 1
    /\ ~IsSpace(line[1])
    /\ Cardinality(TokStarts(line)) >= 7
    /\ LET hold == Tok(line, 4) IN \A k \in 1..Len(hold) : hold[k] \in Digits
    /\ LET caps == Tok(line, 5) IN \A k \in 1..Len(caps) : caps[k] \in Capabilities

\* app.py:57  match.group('device_id')
group_device_id(line) == Tok(line, 1)

\* app.py:58  match.group('local_interface').replace(' ', '')
group_local_interface(line) ==
    replace(SubSeq(line, TokStart(line, 2), TokEnd(line, 3)), <<" ">>, <<>>)

\* device_info is a dict; its insertion order is kept as a sequence of entries
Keys(device_info) == {device_info[k].device_id : k \in 1..Len(device_info)}

\* a plausible slip: the last occurrence of a device ID overwrites the first
store_overwrite(device_info, device_id, local_interface) ==
    IF device_id \in Keys(device_info)
    THEN [k \in 1..Len(device_info) |->
            IF device_info[k].device_id = device_id
            THEN [device_id |-> device_id, local_interface |-> local_interface]
            ELSE device_info[k]]
    ELSE Append(device_info,
                [device_id |-> device_id, local_interface |-> local_interface])

\* app.py:62-63  only store the first occurrence of each device ID
store(device_info, device_id, local_interface) ==
    IF device_id \in Keys(device_info)
    THEN device_info
    ELSE Append(device_info,
                [device_id |-> device_id, local_interface |-> local_interface])

\* app.py:52-63  the loop over the lines
RECURSIVE scan_lines(_, _)
scan_lines(device_info, lines) ==
    IF lines = <<>> THEN device_info
    ELSE IF line_match(Head(lines))
         THEN scan_lines(store(device_info, group_device_id(Head(lines)),
                               group_local_interface(Head(lines))),
                         Tail(lines))
         ELSE scan_lines(device_info, Tail(lines))

parse_cdp_output(output) == scan_lines(<<>>, splitlines(output))

(***************************************************************************)
(* Inputs of the unit specification of parse_cdp_output: summary outputs   *)
(* of up to MaxLines lines, each ended by a newline.                       *)
(***************************************************************************)
LineHeader == <<"D","e","v"," ","I","D">>
LineA_Gig == <<"A"," ","G","i","g"," ","0","/","1"," ","9"," ","S"," ","X"," ","Y">>
LineA_Fas == <<"A"," ","F","a","s"," ","0","/","2"," ","9"," ","S"," ","X"," ","Y">>
LineB_Fas == <<"B"," ","F","a","s"," ","0","/","1"," ","9"," ","R"," ","X"," ","Y">>
LineB_Gig == <<"B"," ","G","i","g"," ","0","/","2"," ","9"," ","R"," ","X"," ","Y">>
LineIndented == <<" ","A"," ","G","i","g"," ","0","/","3"," ","9"," ","S"," ","X"," ","Y">>
LineBadHold == <<"B"," ","G","i","g"," ","0","/","2"," ","x"," ","R"," ","X"," ","Y">>
LineBadCap == <<"B"," ","G","i","g"," ","0","/","2"," ","9"," ","r"," ","X"," ","Y">>
LineShort == <<"B"," ","G","i","g"," ","0","/","2"," ","9"," ","R"," ","X">>

SummaryLines ==
    { LineHeader, <<>>, LineA_Gig, LineA_Fas, LineB_Fas, LineB_Gig,
      LineIndented, LineBadHold, LineBadCap, LineShort }

JoinLines(lines) == Flatten([k \in 1..Len(lines) |-> lines[k] \o <<NL>>])

InitParse ==
    /\ idleMain
    /\ unit = "parse_cdp_output"
    /\ arg \in SeqsUpTo(SummaryLines, MaxLines)
    /\ ret = <<>>
    /\ called = FALSE

Parse ==
    /\ unit = "parse_cdp_output"
    /\ ~called
    /\ ret' = parse_cdp_output(JoinLines(arg))
    /\ called' = TRUE
    /\ UNCHANGED <<mainVars, unit, arg>>

SpecParse == InitParse /\ [][Parse]_vars

(***************************************************************************)
(* parse_cdp_detail_output (app.py:67-81).                                 *)
(***************************************************************************)
\* app.py:76-77  the value of a field the text does not hold
NA == <<"N","/","A">>

PlatformLabel == <<"P","l","a","t","f","o","r","m",":"," ">>
VersionLabel == <<"V","e","r","s","i","o","n">>

\* least element of a non-empty set of integers
Min(S) == CHOOSE x \in S : \A y \in S : x <= y
Max(S) == CHOOSE x \in S : \A y \in S : x >= y

(***************************************************************************)
(* app.py:71  re.search(r'Platform: (.+?),', output)                       *)
(* A match starting at p ends at a comma at q, with at least one character *)
(* between the label and the comma and no newline among them ('.' does not *)
(* match a newline here).  The search returns the leftmost start, the lazy *)
(* group the nearest such comma.                                           *)
(***************************************************************************)
PlatformEnds(output, p) ==
    {q \in (p + Len(PlatformLabel) + 1)..Len(output) :
        /\ output[q] = ","
        /\ \A k \in (p + Len(PlatformLabel))..(q - 1) : output[k] # NL}
PlatformStarts(output) ==
    {p \in 1..Len(output) :
        At(output, p, PlatformLabel) /\ PlatformEnds(output, p) # {}}
platform_match(output) == PlatformStarts(output) # {}
platform_group(output) ==
    LET p == Min(PlatformStarts(output))
    IN  SubSeq(output, p + Len(PlatformLabel), Min(PlatformEnds(output, p)) - 1)

(***************************************************************************)
(* app.py:72  re.search(r'Version\s+:\s+(.+?)\n', output, re.DOTALL)       *)
(* After the label at p: a run of whitespace up to a colon at c; then b>=1 *)
(* whitespace characters, as many as still leave a non-empty value ended   *)
(* by a newline (greedy \s+ with backtracking); the lazy group runs to the *)
(* nearest newline after its first character ('.' matches a newline too).  *)
(***************************************************************************)
\* position of the colon that ends the whitespace run after the label, or 0
VersionColon(output, p) ==
    LET cs == {c \in (p + Len(VersionLabel) + 1)..Len(output) :
                  /\ output[c] = ":"
                  /\ \A k \in (p + Len(VersionLabel))..(c - 1) : IsSpace(output[k])}
    IN  IF cs = {} THEN 0 ELSE Min(cs)
\* the starts s of the group: whitespace from the colon to s, a newline after s
VersionGroupStarts(output, c) ==
    {s \in (c + 2)..Len(output) :
        /\ \A k \in (c + 1)..(s - 1) : IsSpace(output[k])
        /\ \E e \in (s + 1)..Len(output) : output[e] = NL}
VersionStarts(output) ==
    {p \in 1..Len(output) :
        /\ At(output, p, VersionLabel)
        /\ VersionColon(output, p) # 0
        /\ VersionGroupStarts(output, VersionColon(output, p)) # {}}
version_match(output) == VersionStarts(output) # {}
version_group(output) ==
    LET p == Min(VersionStarts(output))
        s == Max(VersionGroupStarts(output, VersionColon(output, p)))
        e == Min({e \in (s + 1)..Len(output) : output[e] = NL})
    IN  SubSeq(output, s, e - 1)

\* str.strip()
RECURSIVE lstrip(_)
lstrip(s) == IF s # <<>> /\ IsSpace(Head(s)) THEN lstrip(Tail(s)) ELSE s
RECURSIVE rstrip(_)
rstrip(s) ==
    IF s # <<>> /\ IsSpace(s[Len(s)]) THEN rstrip(SubSeq(s, 1, Len(s) - 1)) ELSE s
strip(s) == rstrip(lstrip(s))

\* a plausible slip: the two fields fail jointly
parse_cdp_detail_output_joint(output) ==
    IF platform_match(output) /\ version_match(output)
    THEN <<platform_group(output), strip(version_group(output))>>
    ELSE <<NA, NA>>

\* app.py:71-81  returns (platform, version)
parse_cdp_detail_output(output) ==
    << IF platform_match(output) THEN platform_group(output) ELSE NA,
       IF version_match(output) THEN strip(version_group(output)) ELSE NA >>

(***************************************************************************)
(* Inputs of the unit specification of parse_cdp_detail_output: detail     *)
(* outputs of up to MaxSegments segments.  A segment is a Platform field,  *)
(* a Version field or a line holding neither.                              *)
(***************************************************************************)
PlatformSegments ==
    { [kind |-> "platform", value |-> <<"P">>],
      [kind |-> "platform", value |-> <<"c"," ","2">>] }
VersionSegments ==
    { [kind |-> "version", value |-> <<"V">>, gap |-> <<" ">>, pad |-> <<>>],
      [kind |-> "version", value |-> <<"1">>, gap |-> <<NL>>, pad |-> <<" ">>] }
OtherSegments ==
    { [kind |-> "other", value |-> <<"I","D",":"," ","R">>],
      \* a Platform label whose value no comma ends
      [kind |-> "other", value |-> <<"P","l","a","t","f","o","r","m",":"," ","P">>],
      \* a Version label with no whitespace before the colon
      [kind |-> "other", value |-> <<"V","e","r","s","i","o","n",":"," ","1">>] }
DetailSegments == PlatformSegments \cup VersionSegments \cup OtherSegments

Render(seg) ==
    IF seg.kind = "platform"
    THEN PlatformLabel \o seg.value \o <<","," ","x",NL>>
    ELSE IF seg.kind = "version"
    THEN VersionLabel \o <<" ",":">> \o seg.gap \o seg.value \o seg.pad \o <<NL>>
    ELSE seg.value \o <<NL>>

RenderAll(segs) == Flatten([k \in 1..Len(segs) |-> Render(segs[k])])

InitDetail ==
    /\ idleMain
    /\ unit = "parse_cdp_detail_output"
    /\ arg \in SeqsUpTo(DetailSegments, MaxSegments)
    /\ ret = <<>>
    /\ called = FALSE

Detail ==
    /\ unit = "parse_cdp_detail_output"
    /\ ~called
    /\ ret' = parse_cdp_detail_output(RenderAll(arg))
    /\ called' = TRUE
    /\ UNCHANGED <<mainVars, unit, arg>>

SpecDetail == InitDetail /\ [][Detail]_vars

(***************************************************************************)
(* main (app.py:94-137) and its collaborators.                             *)
(***************************************************************************)
\* the addresses list.csv may hold
HostA == <<"1","0",".","1">>
HostB == <<"1","0",".","2">>

\* two files of MaxHosts rows: one alternates the two addresses, the other
\* names each address twice in a row
ListAlternating == [n \in 1..MaxHosts |-> IF n % 2 = 1 THEN HostA ELSE HostB]
ListRepeating ==
    [n \in 1..MaxHosts |-> IF ((n - 1) \div 2) % 2 = 0 THEN HostA ELSE HostB]

\* app.py:9-18  the list of the first fields of the rows of list.csv: the
\* first rows of one of the two files, or no row at all
read_ip_list ==
    {SubSeq(list, 1, n) : list \in {ListAlternating, ListRepeating}, n \in 0..MaxHosts}

\* what the remote devices may print for the summary command
SummaryTexts ==
    { JoinLines(<<LineHeader>>),
      JoinLines(<<LineHeader, LineA_Gig>>),
      JoinLines(<<LineHeader, LineB_Fas, LineA_Gig, LineB_Gig>>) }

SegId == [kind |-> "other", value |-> <<"I","D",":"," ","R">>]
SegPlatform == [kind |-> "platform", value |-> <<"P">>]
SegVersion == [kind |-> "version", value |-> <<"V">>, gap |-> <<" ">>, pad |-> <<>>]

\* what the remote devices may print for a detail command
DetailTexts ==
    { RenderAll(<<SegId, SegPlatform, SegVersion>>),
      RenderAll(<<SegId, SegPlatform>>),
      RenderAll(<<SegId, SegVersion>>),
      RenderAll(<<SegId>>) }

(***************************************************************************)
(* run_ssh_command (app.py:20-38): the values a call may return.  A        *)
(* non-zero return code or an exception gives the empty string, otherwise  *)
(* the call returns what the remote device printed.                        *)
(***************************************************************************)
run_ssh_command(ip, command) ==
    {<<>>} \cup (IF command = cdp_command THEN SummaryTexts ELSE DetailTexts)

\* app.py:89  the header row
csv_header == << <<"I","P">>,
                 <<"D","e","v","i","c","e"," ","T","y","p","e">>,
                 <<"O","S"," ","V","e","r","s","i","o","n">> >>

\* a plausible slip: the rows are not written
write_to_csv_header_only(data) == <<csv_header>>

\* app.py:83-92  the rows of output.csv
write_to_csv(data) == <<csv_header>> \o data

\* a plausible slip: only a row with no field at all is dropped
failed_to_parse_both(platform, version) == platform = NA /\ version = NA

\* app.py:130  platform == 'N/A' or version == 'N/A'
failed_to_parse(platform, version) == platform = NA \/ version = NA

\* a plausible slip: the row is put in front
save_result_front(rows, row) == <<row>> \o rows

\* app.py:135  results.append([ip, platform, version])
save_result(rows, row) == Append(rows, row)

\* one call of run_ssh_command, as the log of the run records it
\* (neighbor is 0 for the summary command; parsed is what the parser made of
\* a non-empty output, <<>> when no parser ran)
Call(command, output, neighbor, parsed) ==
    [host |-> i, ip |-> ip_list[i], command |-> command, output |-> output,
     neighbor |-> neighbor, parsed |-> parsed]

\* a plausible slip: break instead of continue
skip_host_break ==
    /\ i' = Len(ip_list) + 1
    /\ UNCHANGED <<pc, j>>

\* a plausible slip: the failed summary command is sent again
skip_host_retry ==
    /\ Len(cmdLog) < 2 * MaxHosts + 2
    /\ UNCHANGED <<pc, i, j>>

\* a plausible slip: no continue, the neighbour loop runs on the mapping at hand
skip_host_fallthrough ==
    IF device_interfaces = <<>>
    THEN i' = i + 1 /\ UNCHANGED <<pc, j>>
    ELSE pc' = "neighbor" /\ j' = 1 /\ UNCHANGED i

\* app.py:110, 115  continue: on to the next host
skip_host ==
    /\ i' = i + 1
    /\ UNCHANGED <<pc, j>>

\* a plausible slip: break instead of continue
next_neighbor_break ==
    /\ pc' = "host"
    /\ i' = i + 1
    /\ j' = 0

\* app.py:117, 127, 132  on to the next neighbour, or to the next host after
\* the last one
next_neighbor ==
    IF j < Len(device_interfaces)
    THEN j' = j + 1 /\ UNCHANGED <<pc, i>>
    ELSE pc' = "host" /\ i' = i + 1 /\ j' = 0

Init ==
    /\ ip_list \in read_ip_list
    /\ pc = "host"
    /\ i = 1
    /\ device_interfaces = <<>>
    /\ j = 0
    /\ results = <<>>
    /\ cmdLog = <<>>
    /\ rowSrc = <<>>
    /\ csv = <<>>
    /\ writes = 0
    /\ unit = "main"
    /\ arg = <<>>
    /\ ret = <<>>
    /\ called = FALSE

\* app.py:101-115  one host: the summary command and its parse
QuerySummary ==
    /\ pc = "host"
    /\ i <= Len(ip_list)
    /\ \E cdp_output \in run_ssh_command(ip_list[i], cdp_command) :
        IF cdp_output = <<>>
        THEN /\ cmdLog' = Append(cmdLog, Call(cdp_command, cdp_output, 0, <<>>))
             /\ skip_host
             /\ UNCHANGED device_interfaces
        ELSE /\ device_interfaces' = parse_cdp_output(cdp_output)
             /\ cmdLog' = Append(cmdLog,
                                 Call(cdp_command, cdp_output, 0, device_interfaces'))
             /\ IF device_interfaces' = <<>>
                THEN skip_host
                ELSE pc' = "neighbor" /\ j' = 1 /\ UNCHANGED i
    /\ UNCHANGED <<ip_list, results, rowSrc, csv, writes, unit, arg, ret, called>>

\* app.py:117-135  one neighbour: the detail command, its parse and the row
QueryDetail ==
    /\ pc = "neighbor"
    /\ LET interface == device_interfaces[j].local_interface
           command == detail_command(interface)
       IN  \E cdp_detail_output \in run_ssh_command(ip_list[i], command) :
            IF cdp_detail_output = <<>>
            THEN /\ cmdLog' = Append(cmdLog, Call(command, cdp_detail_output, j, <<>>))
                 /\ UNCHANGED <<results, rowSrc>>
                 /\ next_neighbor
            ELSE LET pv == parse_cdp_detail_output(cdp_detail_output)
                 IN  /\ cmdLog' = Append(cmdLog, Call(command, cdp_detail_output, j, pv))
                     /\ IF failed_to_parse(pv[1], pv[2])
                        THEN UNCHANGED <<results, rowSrc>>
                        ELSE /\ results' =
                                  save_result(results, <<ip_list[i], pv[1], pv[2]>>)
                             /\ rowSrc' = Append(rowSrc, <<i, j>>)
                     /\ next_neighbor
    /\ UNCHANGED <<ip_list, device_interfaces, csv, writes, unit, arg, ret, called>>

\* app.py:137  after the loop over the hosts
WriteToCsv ==
    /\ pc = "host"
    /\ i > Len(ip_list)
    /\ csv' = write_to_csv(results)
    /\ writes' = writes + 1
    /\ pc' = "done"
    /\ UNCHANGED <<ip_list, i, device_interfaces, j, results, cmdLog, rowSrc,
                   unit, arg, ret, called>>

Next == QuerySummary \/ QueryDetail \/ WriteToCsv

Spec == Init /\ [][Next]_vars

(***************************************************************************)
(* Properties of main, stated over the log of the calls of run_ssh_command *)
(* and the rows appended so far.                                           *)
(***************************************************************************)
LogIdx == 1..Len(cmdLog)
IsSummary(e) == e.neighbor = 0
IsDetail(e) == e.neighbor > 0

\* the mapping the summary command of the host at position h parsed to
MappingOf(h) ==
    LET ks == {k \in LogIdx : cmdLog[k].host = h /\ IsSummary(cmdLog[k])}
    IN  IF ks = {} THEN <<>> ELSE cmdLog[Min(ks)].parsed

\* the detail call e has a row of its own in results
HasRow(e) ==
    \E r \in 1..Len(rowSrc) :
        /\ rowSrc[r] = <<e.host, e.neighbor>>
        /\ r <= Len(results)
        /\ results[r] = <<e.ip, e.parsed[1], e.parsed[2]>>

\* the detail call e returned text: parse_cdp_detail_output ran on it
Parsed(e) == IsDetail(e) /\ e.output # <<>>
MissingFields(e) == Cardinality({f \in 1..2 : e.parsed[f] = NA})

\* C1 as stated: after a detail command returned non-empty output and was
\* parsed, the row is left out only when both platform and version are the
\* missing-value sentinel; with exactly one of them missing it is appended.
C1_RowUnlessBothMissing ==
    \A k \in LogIdx :
        Parsed(cmdLog[k]) => (HasRow(cmdLog[k]) <=> MissingFields(cmdLog[k]) < 2)

\* C1 amended: after a detail command returned non-empty output and was
\* parsed, the row is appended only when both platform and version were
\* extracted; when either of them is the missing-value sentinel no row is
\* appended (partial data is not recorded).
C1_RowOnlyIfBothParsed ==
    \A k \in LogIdx :
        Parsed(cmdLog[k]) => (HasRow(cmdLog[k]) <=> MissingFields(cmdLog[k]) = 0)

\* the C1 case: one parsed output with exactly one field missing, another
\* with both fields, whose row is there
C1_Witness ==
    /\ \E k \in LogIdx : Parsed(cmdLog[k]) /\ MissingFields(cmdLog[k]) = 1
    /\ \E k \in LogIdx : Parsed(cmdLog[k]) /\ MissingFields(cmdLog[k]) = 0
    /\ Len(results) >= 1

\* the summary call e failed, returned nothing, or parsed to no neighbour
SkippedHost(e) == IsSummary(e) /\ (e.output = <<>> \/ e.parsed = <<>>)

C2_State ==
    \A k \in LogIdx :
        SkippedHost(cmdLog[k]) =>
            /\ \A m \in LogIdx : cmdLog[m].host = cmdLog[k].host => m = k
            /\ \A r \in 1..Len(rowSrc) : rowSrc[r][1] # cmdLog[k].host
            /\ IF k < Len(cmdLog)
               THEN /\ cmdLog[k].host < Len(ip_list)
                    /\ IsSummary(cmdLog[k + 1])
                    /\ cmdLog[k + 1].host = cmdLog[k].host + 1
               ELSE /\ i = cmdLog[k].host + 1
                    /\ pc = (IF writes = 0 THEN "host" ELSE "done")
            /\ (pc = "done" =>
                  \A h \in 1..Len(ip_list) :
                      \E m \in LogIdx : cmdLog[m].host = h /\ IsSummary(cmdLog[m]))

C2_Step ==
    (Len(cmdLog') = Len(cmdLog) + 1 /\ SkippedHost(cmdLog'[Len(cmdLog')]))
        => /\ results' = results
           /\ pc' = "host"
           /\ i' = i + 1

\* C2: a host whose summary command fails, returns nothing or parses to no
\* neighbour gets no detail command and no row; the step that skips it leaves
\* the rows alone and moves to the next host, whose summary command is the
\* next call; the run goes on to the end of the list.
C2_SkipHost == []C2_State /\ [][C2_Step]_vars

\* the C2 case: the first host was skipped, the second one was queried and
\* gave a row, and the table was written
C2_Witness ==
    /\ pc = "done"
    /\ Len(ip_list) = 2
    /\ SkippedHost(cmdLog[1])
    /\ \E r \in 1..Len(rowSrc) : rowSrc[r][1] = 2

\* the other C2 case: a host skipped after an earlier host gave a row
C2_WitnessEarlierRows ==
    /\ Len(cmdLog) >= 2
    /\ SkippedHost(cmdLog[Len(cmdLog)])
    /\ cmdLog[Len(cmdLog)].host = 2
    /\ results # <<>>

\* the detail call e failed or returned nothing
SkippedNeighbor(e) == IsDetail(e) /\ e.output = <<>>

\* C3: a neighbour whose detail command fails or returns nothing gets no row,
\* and the next neighbour of the mapping is queried next; a detail command
\* that returns both fields gives its row whatever happened to the others.
\* With two neighbours, one failing and one succeeding, the host has exactly
\* one row, the one of the succeeding neighbour.
C3_SkipNeighbor ==
    /\ \A k \in LogIdx :
        SkippedNeighbor(cmdLog[k]) =>
            /\ ~ \E r \in 1..Len(rowSrc) :
                    rowSrc[r] = <<cmdLog[k].host, cmdLog[k].neighbor>>
            /\ cmdLog[k].neighbor < Len(MappingOf(cmdLog[k].host)) =>
                 IF k < Len(cmdLog)
                 THEN /\ IsDetail(cmdLog[k + 1])
                      /\ cmdLog[k + 1].host = cmdLog[k].host
                      /\ cmdLog[k + 1].neighbor = cmdLog[k].neighbor + 1
                 ELSE /\ pc = "neighbor"
                      /\ i = cmdLog[k].host
                      /\ j = cmdLog[k].neighbor + 1
    /\ \A k \in LogIdx :
        (Parsed(cmdLog[k]) /\ MissingFields(cmdLog[k]) = 0) => HasRow(cmdLog[k])
    /\ \A h \in 1..Len(ip_list) :
        LET rows == {r \in 1..Len(rowSrc) : rowSrc[r][1] = h}
            calls == {k \in LogIdx : cmdLog[k].host = h /\ IsDetail(cmdLog[k])}
            good == {k \in calls : Parsed(cmdLog[k]) /\ MissingFields(cmdLog[k]) = 0}
        IN  ( /\ Cardinality(calls) = 2
              /\ Cardinality(good) = 1
              /\ \E k \in calls : SkippedNeighbor(cmdLog[k]) )
            => /\ Cardinality(rows) = 1
               /\ \A r \in rows : \A k \in good :
                     rowSrc[r] = <<h, cmdLog[k].neighbor>>

\* the C3 case: the first of two neighbours failed, the second gave the only
\* row
C3_Witness ==
    /\ Len(cmdLog) = 3
    /\ SkippedNeighbor(cmdLog[2])
    /\ Parsed(cmdLog[3]) /\ MissingFields(cmdLog[3]) = 0
    /\ cmdLog[3].neighbor = 2
    /\ Len(results) = 1

\* C4: the table is written once, after the last host; it holds every row of
\* the run (so none is added after the write); whatever failed, the run is
\* never stuck before the write.
C4_WriteOnce ==
    /\ writes <= 1
    /\ writes = 1 <=> pc = "done"
    /\ pc # "done" => ENABLED Next
    /\ pc = "done" =>
        /\ i = Len(ip_list) + 1
        /\ \A h \in 1..Len(ip_list) :
              \E k \in LogIdx : cmdLog[k].host = h /\ IsSummary(cmdLog[k])
        /\ \A h \in 1..Len(ip_list) : \A n \in 1..Len(MappingOf(h)) :
              \E k \in LogIdx : cmdLog[k].host = h /\ cmdLog[k].neighbor = n
        /\ Len(csv) = Len(results) + 1
        /\ csv[1] = csv_header
        /\ \A r \in 1..Len(results) : csv[r + 1] = results[r]

\* the C4 cases: a written table with rows, and a header-only table after
\* every host failed
C4_Witness ==
    /\ pc = "done"
    /\ Len(ip_list) = 2
    /\ Len(results) >= 2
    /\ \E k \in LogIdx : SkippedNeighbor(cmdLog[k])
C4_WitnessAllFailed ==
    /\ pc = "done"
    /\ Len(ip_list) = 2
    /\ \A k \in LogIdx : cmdLog[k].output = <<>>
    /\ csv = <<csv_header>>

\* the lines of the summary output of the host at position h
SummaryLinesOf(h) ==
    LET ks == {k \in LogIdx : cmdLog[k].host = h /\ IsSummary(cmdLog[k])}
    IN  IF ks = {} THEN <<>> ELSE splitlines(cmdLog[Min(ks)].output)

\* the first line of lines that is a neighbour record of device_id
FirstLineOf(lines, device_id) ==
    Min({k \in 1..Len(lines) :
            line_match(lines[k]) /\ group_device_id(lines[k]) = device_id})

\* (h1, n1) comes before (h2, n2): an earlier host, or the same host and a
\* neighbour whose identifier first appeared on an earlier summary line
Before(s1, s2) ==
    \/ s1[1] < s2[1]
    \/ /\ s1[1] = s2[1]
       /\ LET lines == SummaryLinesOf(s1[1])
              m == MappingOf(s1[1])
          IN  FirstLineOf(lines, m[s1[2]].device_id)
                < FirstLineOf(lines, m[s2[2]].device_id)

C5_State ==
    /\ Len(rowSrc) = Len(results)
    /\ \A r \in 1..Len(results) : results[r][1] = ip_list[rowSrc[r][1]]
    /\ \A r \in 1..(Len(rowSrc) - 1) : Before(rowSrc[r], rowSrc[r + 1])

C5_Step ==
    \/ results' = results
    \/ /\ Len(results') = Len(results) + 1
       /\ SubSeq(results', 1, Len(results)) = results
       /\ results'[Len(results')][1] = ip_list[i]

\* C5: at every point the rows are in host-list order and, within a host, in
\* the order in which the neighbour identifiers first appeared in the summary
\* output; a step leaves the rows alone or adds one row of the current host
\* at the end.
C5_RowOrder == []C5_State /\ [][C5_Step]_vars

\* the C5 case: two rows of the first host, whose neighbours were found in an
\* order that is not the order of their identifiers (B before A), and a row
\* of a second host with another address
C5_Witness ==
    /\ Len(results) = 3
    /\ rowSrc = << <<1, 1>>, <<1, 2>>, <<2, 1>> >>
    /\ MappingOf(1)[1].device_id = <<"B">>
    /\ MappingOf(1)[2].device_id = <<"A">>
    /\ ip_list[1] # ip_list[2]

\* the hosts whose turn has come: their summary command was sent
Started(h) == h < i \/ (h = i /\ pc = "neighbor")
\* the neighbours of a started host whose turn has come
Queried(h, n) == h < i \/ (h = i /\ pc = "neighbor" /\ n < j)

RECURSIVE SumLen(_)
SumLen(h) == IF h = 0 THEN 0 ELSE Len(MappingOf(h)) + SumLen(h - 1)

\* C6: nothing is retried.  The summary command is sent once to every host
\* whose turn has come and never to the others; the detail command is sent
\* once for every neighbour of the host's mapping whose turn has come,
\* whatever the calls returned; at the end the number of calls is the number
\* of hosts plus the sizes of the mappings, and there are never more rows
\* than detail commands.
C6_NoRetry ==
    /\ \A h \in 1..Len(ip_list) :
        Cardinality({k \in LogIdx : cmdLog[k].host = h /\ IsSummary(cmdLog[k])})
            = (IF Started(h) THEN 1 ELSE 0)
    /\ \A h \in 1..Len(ip_list) : \A n \in 1..Len(MappingOf(h)) :
        Cardinality({k \in LogIdx : cmdLog[k].host = h /\ cmdLog[k].neighbor = n})
            = (IF Queried(h, n) THEN 1 ELSE 0)
    /\ \A k \in LogIdx :
        /\ cmdLog[k].host \in 1..Len(ip_list)
        /\ cmdLog[k].neighbor \in 0..Len(MappingOf(cmdLog[k].host))
    /\ pc = "done" => Len(cmdLog) = Len(ip_list) + SumLen(Len(ip_list))
    /\ Len(results) <= Cardinality({k \in LogIdx : IsDetail(cmdLog[k])})

\* the C6 case: a finished run with a failed summary command, a failed detail
\* command and a detail command that gave no row
C6_Witness ==
    /\ pc = "done"
    /\ Len(ip_list) = 2
    /\ \E k \in LogIdx : IsSummary(cmdLog[k]) /\ cmdLog[k].output = <<>>
    /\ \E k \in LogIdx : SkippedNeighbor(cmdLog[k])
    /\ \E k \in LogIdx : Parsed(cmdLog[k]) /\ MissingFields(cmdLog[k]) = 2
    /\ Len(cmdLog) = 4

\* C10: every detail command follows, with only detail commands of the same
\* host in between, the summary command of its host, which returned text
\* that parsed to a mapping holding the queried interface; the calls are in
\* host order; and a summary command follows either the detail command of
\* the last neighbour of the host before or a summary command that found no
\* neighbour.
C10_Sequential ==
    /\ \A k \in LogIdx :
        IsDetail(cmdLog[k]) =>
            \E s \in 1..(k - 1) :
                /\ IsSummary(cmdLog[s])
                /\ cmdLog[s].host = cmdLog[k].host
                /\ cmdLog[s].output # <<>>
                /\ cmdLog[s].parsed # <<>>
                /\ cmdLog[k].neighbor <= Len(cmdLog[s].parsed)
                /\ cmdLog[k].command =
                     detail_command(cmdLog[s].parsed[cmdLog[k].neighbor].local_interface)
                /\ \A m \in (s + 1)..k :
                     /\ IsDetail(cmdLog[m])
                     /\ cmdLog[m].host = cmdLog[k].host
                     /\ cmdLog[m].neighbor = m - s
    /\ \A k \in 1..(Len(cmdLog) - 1) :
        /\ cmdLog[k].host <= cmdLog[k + 1].host
        /\ IsSummary(cmdLog[k + 1]) =>
             /\ cmdLog[k + 1].host = cmdLog[k].host + 1
             /\ IF IsDetail(cmdLog[k])
                THEN cmdLog[k].neighbor = Len(MappingOf(cmdLog[k].host))
                ELSE SkippedHost(cmdLog[k])
    /\ \A k \in LogIdx : IsSummary(cmdLog[k]) => cmdLog[k].command = cdp_command
    /\ cmdLog # <<>> => IsSummary(cmdLog[1]) /\ cmdLog[1].host = 1

\* the C10 case: the summary command of a second host right after the second
\* detail command of the first
C10_Witness ==
    /\ Len(cmdLog) = 5
    /\ IsDetail(cmdLog[3]) /\ cmdLog[3].host = 1 /\ cmdLog[3].neighbor = 2
    /\ IsSummary(cmdLog[4]) /\ cmdLog[4].host = 2
    /\ IsDetail(cmdLog[5]) /\ cmdLog[5].host = 2

(***************************************************************************)
(* Properties of the interface-name normalisation, under SpecNormalize.    *)
(***************************************************************************)
\* the interface named by a detail command
InterfaceOf(command) ==
    SubSeq(command, Len(show_cdp_neighbor) + 1, Len(command) - Len(detail_suffix))

\* one pass from left to right that expands every "Fas" and every "Gig"
RECURSIVE ExpandEach(_)
ExpandEach(s) ==
    IF s = <<>> THEN <<>>
    ELSE IF At(s, 1, Fas) THEN FastEthernet \o ExpandEach(SubSeq(s, 4, Len(s)))
    ELSE IF At(s, 1, Gig) THEN GigabitEthernet \o ExpandEach(SubSeq(s, 4, Len(s)))
    ELSE <<Head(s)>> \o ExpandEach(Tail(s))

\* C7 as stated: at most one substitution, by priority: a name containing
\* "Fas" has it expanded and its "Gig" left alone; otherwise "Gig" is
\* expanded; a name with neither is unchanged; the detail command names the
\* result.
C7_FirstMatchWins ==
    called =>
        ret = show_cdp_neighbor \o corrected_interface_firstmatch(arg) \o detail_suffix

\* C7 amended: both substitutions are applied, one after the other, each to
\* every occurrence: every "Fas" becomes "FastEthernet" and every "Gig"
\* becomes "GigabitEthernet", also in a name that contains both; a name with
\* neither is unchanged; the detail command names the result.
C7_BothExpanded ==
    called =>
        /\ At(ret, 1, show_cdp_neighbor)
        /\ At(ret, Len(ret) - Len(detail_suffix) + 1, detail_suffix)
        /\ InterfaceOf(ret) = ExpandEach(arg)
        /\ Len(InterfaceOf(ret)) =
             Len(arg) + (Len(FastEthernet) - Len(Fas)) * Count(arg, Fas)
                      + (Len(GigabitEthernet) - Len(Gig)) * Count(arg, Gig)
        /\ (~Contains(arg, Fas) /\ ~Contains(arg, Gig)) => InterfaceOf(ret) = arg

\* the C7 case: a name that contains both "Fas" and "Gig", normalised
C7_Witness ==
    /\ called
    /\ unit = "normalize"
    /\ Contains(arg, Fas)
    /\ Contains(arg, Gig)
    /\ Contains(ret, FastEthernet)
    /\ Contains(ret, GigabitEthernet)

(***************************************************************************)
(* Properties of parse_cdp_output, under SpecParse.                        *)
(***************************************************************************)
\* the lines of the input that are neighbour records
MatchIdx == {k \in 1..Len(arg) : line_match(arg[k])}
\* those that are the first record of their device ID
FirstIdx ==
    LET idx == MatchIdx
        ids == [k \in idx |-> group_device_id(arg[k])]
    IN  {k \in idx : \A m \in idx : m < k => ids[m] # ids[k]}

RECURSIVE Pick(_, _, _)
Pick(lines, idx, k) ==
    IF k > Len(lines) THEN <<>>
    ELSE (IF k \in idx THEN <<lines[k]>> ELSE <<>>) \o Pick(lines, idx, k + 1)

\* C8: the mapping holds at most one interface per neighbour identifier, the
\* one of the first matching line with that identifier; every identifier of
\* a matching line is in it; later lines with a known identifier and lines
\* that do not match change nothing (the mapping is the one of the first
\* records alone, and empty when no line matches).
C8_FirstOccurrenceWins ==
    called =>
        LET matches == MatchIdx
            firsts == FirstIdx
            ids == [k \in matches |-> group_device_id(arg[k])]
        IN  /\ \A a, b \in 1..Len(ret) : ret[a].device_id = ret[b].device_id => a = b
            /\ \A a \in 1..Len(ret) :
                \E k \in firsts :
                    /\ ids[k] = ret[a].device_id
                    /\ group_local_interface(arg[k]) = ret[a].local_interface
            /\ \A k \in matches :
                \E a \in 1..Len(ret) : ret[a].device_id = ids[k]
            /\ Len(ret) = Cardinality(firsts)
            /\ ret = parse_cdp_output(JoinLines(Pick(arg, firsts, 1)))

\* the C8 case: two matching lines with the same identifier and different
\* interfaces, and a line that does not match
C8_Witness ==
    /\ called
    /\ unit = "parse_cdp_output"
    /\ \E k, m \in MatchIdx :
        /\ k < m
        /\ group_device_id(arg[k]) = group_device_id(arg[m])
        /\ group_local_interface(arg[k]) # group_local_interface(arg[m])
    /\ \E k \in 1..Len(arg) : k \notin MatchIdx
    /\ Len(ret) = 1

(***************************************************************************)
(* Properties of parse_cdp_detail_output, under SpecDetail.                *)
(***************************************************************************)
Unknown == <<"u","n","k","n","o","w","n">>

\* the value of the first segment of that kind, or the sentinel
FieldOf(kind, sentinel) ==
    LET idx == {k \in 1..Len(arg) : arg[k].kind = kind}
    IN  IF idx = {} THEN sentinel ELSE arg[Min(idx)].value

\* C9 as stated: each field is extracted whether or not the other is there,
\* and a field the text does not hold is returned as "unknown".
C9_IndependentUnknown ==
    called => ret = <<FieldOf("platform", Unknown), FieldOf("version", Unknown)>>

\* C9 amended: each field is extracted whether or not the other is there,
\* and a field the text does not hold is returned as the sentinel "N/A".
C9_IndependentNA ==
    called => ret = <<FieldOf("platform", NA), FieldOf("version", NA)>>

\* the C9 case: a text with a Version field and no Platform field, parsed
C9_Witness ==
    /\ called
    /\ unit = "parse_cdp_detail_output"
    /\ \A k \in 1..Len(arg) : arg[k].kind # "platform"
    /\ \E k \in 1..Len(arg) : arg[k].kind = "version"
    /\ ret[1] = NA
    /\ ret[2] # NA

====
